---- MODULE Spec2Model ----
(***************************************************************************)
(* A model of src/shape.py: the signed (shoelace) area of a node list, the *)
(* conversion of a node list to an edge set, and the class Shape (its      *)
(* constructor, merge, nodes, to_node_list, __eq__, __hash__, __len__).    *)
(*                                                                         *)
(* A node is an integer.  An edge is the Python value the Shape was given  *)
(* for it: the frozenset node_list_to_edges builds (of two nodes for a     *)
(* proper edge, of one node when both ends are the same node), or a tuple  *)
(* (u, v) as the annotation of Shape.__init__ names and generate_polygon   *)
(* of the tests builds.  A coordinate is the pair <<x, y>>.                *)
(* A coordinate map is None or a Python dict, a function from nodes to     *)
(* coordinates.  Coordinates are integers, for which the float arithmetic  *)
(* of the source is exact.                                                 *)
(***************************************************************************)
EXTENDS Integers, Sequences, FiniteSets, TLC

VARIABLES
    self,             \* the Shape a method runs on (merge's left operand)
    other,            \* merge's right operand, or a second Shape
    arg_list,         \* the node list `self` was built from (<<>> if none)
    other_list,       \* the node list `other` was built from (<<>> if none)
    is_ring,          \* the is_ring argument given to node_list_to_edges
    merged,           \* the outcome of self.merge(other)
    merged_back,      \* the outcome of self.merge(other).merge(other)
    node_list,        \* to_node_list: the local node_list
    seen_nodes,       \* to_node_list: the local seen_nodes
    iterations,       \* to_node_list: passes through the while loop so far
    pc,               \* the position of the running call
    current_rings,    \* a Python set of Shapes
    perimeter_rings,  \* a Python set of Shapes
    area,             \* the last value calculate_polygon_area returned
    prev_area,        \* the value it returned before node_list was reordered
    last_op           \* how node_list was last reordered

vars == <<self, other, arg_list, other_list, is_ring, merged, merged_back, node_list,
          seen_nodes, iterations, pc, current_rings, perimeter_rings,
          area, prev_area, last_op>>

----------------------------------------------------------------------------
(* Bounds of the model. *)

\* nodes are 0 .. NumNodes - 1 in the node-list and set specifications
NumNodes == 4
\* coordinates are drawn from (0 .. GridMax) x (0 .. GridMax)
GridMax == 1
\* rings given to merge have 3 .. MaxRingLen nodes
MaxRingLen == 4
\* node lists given to calculate_polygon_area have 0 .. MaxAreaLen nodes
MaxAreaLen == 3

Nodes == 0 .. (NumNodes - 1)
Grid == (0 .. GridMax) \X (0 .. GridMax)

----------------------------------------------------------------------------
(* Python values. *)

\* a coords_dict argument: None, or a dict d
None == [is_none |-> TRUE, dict |-> <<>>]
Dict(d) == [is_none |-> FALSE, dict |-> d]

\* min() of a non-empty collection of integers
Min(S) == CHOOSE x \in S : \A y \in S : x <= y

\* list(reversed(l))
reversed(l) == [i \in 1 .. Len(l) |-> l[Len(l) + 1 - i]]

\* l[-1:] + l[:-1]
rotate(l) == IF Len(l) = 0 THEN l
             ELSE <<l[Len(l)]>> \o SubSeq(l, 1, Len(l) - 1)

Range(l) == {l[i] : i \in DOMAIN l}

Distinct(l) == \A i, j \in DOMAIN l : i # j => l[i] # l[j]

\* the lists of pairwise distinct nodes of S with lo .. hi elements
NodeLists(S, lo, hi) ==
    UNION {{l \in [1 .. n -> S] : Distinct(l)} : n \in lo .. hi}

\* the coordinates the two-squares test gives its six nodes
test_coords_dict ==
    (0 :> <<0, 0>>) @@ (1 :> <<0, 1>>) @@ (2 :> <<1, 1>>) @@
    (3 :> <<1, 0>>) @@ (4 :> <<2, 0>>) @@ (5 :> <<2, 1>>)

\* A Python frozenset or tuple of nodes.  `items` is what iterating over
\* the value and testing `in` on it see; `order` is the tuple itself, and
\* empty for a frozenset.  Two frozensets are equal when their items are,
\* two tuples when they are the same sequence, and a tuple equals no
\* frozenset, as in Python.
frozenset(S) == [type |-> "frozenset", items |-> S, order |-> <<>>]
tuple(t) == [type |-> "tuple", items |-> Range(t), order |-> t]

----------------------------------------------------------------------------
(* calculate_polygon_area *)

RECURSIVE shoelace(_, _, _)
\* the terms the loop adds to signed_area for the positions i .. Len
shoelace(nl, coords_dict, i) ==
    IF i > Len(nl) THEN 0
    ELSE LET this_coord == coords_dict[nl[i]]
             next_node  == nl[(i % Len(nl)) + 1]
             next_coord == coords_dict[next_node]
         IN  (this_coord[1] * next_coord[2] - this_coord[2] * next_coord[1])
             + shoelace(nl, coords_dict, i + 1)

RECURSIVE shoelace_sum(_, _, _)
\* the loop with the two products of a term added, not subtracted
shoelace_sum(nl, coords_dict, i) ==
    IF i > Len(nl) THEN 0
    ELSE LET this_coord == coords_dict[nl[i]]
             next_coord == coords_dict[nl[(i % Len(nl)) + 1]]
         IN  (this_coord[1] * next_coord[2] + this_coord[2] * next_coord[1])
             + shoelace_sum(nl, coords_dict, i + 1)

\* signed_area with that slip in its terms
signed_area_sum(nl, coords_dict) == shoelace_sum(nl, coords_dict, 1)

\* the local signed_area when the loop ends
signed_area(nl, coords_dict) == shoelace(nl, coords_dict, 1)

\* the result 0.5 * signed_area, kept exact as the fraction num / den
calculate_polygon_area(nl, coords_dict) ==
    [num |-> signed_area(nl, coords_dict), den |-> 2]

----------------------------------------------------------------------------
(* node_list_to_edges *)

\* node_list_to_edges that never joins the last node to the first
node_list_to_edges_open(nl, ring) ==
    {frozenset({nl[i], nl[(i % Len(nl)) + 1]}) : i \in 1 .. (Len(nl) - 1)}

node_list_to_edges(nl, ring) ==
    LET list_size == Len(nl)
        offset    == IF ring THEN 0 ELSE -1
    IN  {frozenset({nl[i], nl[(i % list_size) + 1]}) :
                i \in 1 .. (list_size + offset)}

----------------------------------------------------------------------------
(* class Shape *)

\* Shape(edges, coords_dict) for a set or frozenset of edges
Shape(edges, coords_dict) == [edges |-> edges, coords_dict |-> coords_dict]

\* Shape(edges, coords_dict) for a list of edges: frozenset(edges)
ShapeFromSequence(edge_seq, coords_dict) == Shape(Range(edge_seq), coords_dict)

\* the property Shape.nodes
nodes(shape) == UNION {edge.items : edge \in shape.edges}

\* Shape.__len__
len(shape) == Cardinality(shape.edges)

\* Shape.__hash__: hash(self.edges), a function of the frozenset alone; the
\* model takes the set itself for it (no two sets collide), which is as far
\* as a Python set can tell, since it asks __eq__ of members that hash alike
hash(shape) == shape.edges

\* Shape.__eq__
eq(shape, o) == shape.edges = o.edges

\* Shape.__contains__
contains(shape, obj) == obj \in shape.edges

\* set.add(shape) on a Python set of Shapes, which keeps the member
\* already there when __hash__ and __eq__ say the new one equals it
set_add(S, shape) ==
    IF \E s \in S : hash(s) = hash(shape) /\ eq(s, shape) THEN S
    ELSE S \cup {shape}

\* an outcome of a call: a value returned, or an exception raised
Returned(v) == [raised |-> "", value |-> v]
Raised(e)   == [raised |-> e, value |-> <<>>]

\* the exception the loop over the common nodes raises, "" if none
SharedCoordsError(shape, o) ==
    LET common_nodes == nodes(shape) \cap nodes(o)
    IN  IF common_nodes # {} /\ (shape.coords_dict.is_none \/ o.coords_dict.is_none)
        THEN "TypeError"
        ELSE IF \E node \in common_nodes :
                   shape.coords_dict.dict[node] # o.coords_dict.dict[node]
        THEN "ValueError"
        ELSE ""

\* merge that keeps the edges of self alone
merge_self_only(shape, o) ==
    IF SharedCoordsError(shape, o) # "" THEN Raised(SharedCoordsError(shape, o))
    ELSE Returned(Shape(shape.edges \ o.edges, shape.coords_dict))

\* merge that keeps the edges the two shapes share
merge_union(shape, o) ==
    IF SharedCoordsError(shape, o) # "" THEN Raised(SharedCoordsError(shape, o))
    ELSE Returned(Shape(shape.edges \cup o.edges, shape.coords_dict))

\* merge that gives the new shape no coordinate map
merge_without_coords(shape, o) ==
    IF SharedCoordsError(shape, o) # "" THEN Raised(SharedCoordsError(shape, o))
    ELSE Returned(Shape((shape.edges \ o.edges) \cup (o.edges \ shape.edges), None))

\* merge that compares the first coordinate only
merge_compares_x(shape, o) ==
    LET common_nodes == nodes(shape) \cap nodes(o)
    IN  IF common_nodes # {} /\ (shape.coords_dict.is_none \/ o.coords_dict.is_none)
        THEN Raised("TypeError")
        ELSE IF \E node \in common_nodes :
                   shape.coords_dict.dict[node][1] # o.coords_dict.dict[node][1]
        THEN Raised("ValueError")
        ELSE Returned(Shape((shape.edges \ o.edges) \cup (o.edges \ shape.edges),
                            shape.coords_dict))

\* self.merge(other)
merge(shape, o) ==
    LET unique_edges == (shape.edges \ o.edges) \cup (o.edges \ shape.edges)
        common_nodes == nodes(shape) \cap nodes(o)
    IN  IF common_nodes # {} /\ (shape.coords_dict.is_none \/ o.coords_dict.is_none)
        THEN Raised("TypeError")
        ELSE IF \E node \in common_nodes :
                   shape.coords_dict.dict[node] # o.coords_dict.dict[node]
        THEN Raised("ValueError")
        ELSE Returned(Shape(unique_edges, shape.coords_dict))

\* connected_nodes without the nodes seen taken out
connected_nodes_with_seen(shape, last_node, seen) ==
    UNION {edge.items : edge \in {e \in shape.edges : last_node \in e.items}}
        \ {last_node}

\* to_node_list, lines 137-141: the unseen nodes joined to last_node
connected_nodes(shape, last_node, seen) ==
    UNION {edge.items : edge \in {e \in shape.edges : last_node \in e.items}}
        \ seen

\* the winding fix that reverses the list and does not rotate it
winding_no_rotate(shape, nl) ==
    IF shape.coords_dict.is_none THEN nl
    ELSE IF calculate_polygon_area(nl, shape.coords_dict.dict).num < 0
    THEN reversed(nl)
    ELSE nl

\* to_node_list, lines 148-156: the winding fix on the list the loop built
winding(shape, nl) ==
    IF shape.coords_dict.is_none THEN nl
    ELSE IF calculate_polygon_area(nl, shape.coords_dict.dict).num < 0
    THEN rotate(reversed(nl))
    ELSE nl

----------------------------------------------------------------------------
(* Values of the variables a specification does not use. *)

NoShape == Shape({}, None)
NoOutcome == [raised |-> "not called", value |-> <<>>]
NoArea == [num |-> 0, den |-> 1]

----------------------------------------------------------------------------
(* Inputs. *)

\* the two-node edges over a set of nodes, as node_list_to_edges gives them
EdgesOver(S) == {frozenset({u, v}) : u, v \in S} \ {frozenset({u}) : u \in S}

\* a ring's node list in the one rotation and direction that starts at its
\* least node and goes on to the lesser of that node's two neighbours
Canonical(l) == l[1] = Min(Range(l)) /\ l[2] < l[Len(l)]

\* the test's coordinates of the nodes of S, and their mirror image
TestCoords(S) == [n \in S |-> test_coords_dict[n]]
MirrorCoords(S) == [n \in S |-> <<test_coords_dict[n][2], test_coords_dict[n][1]>>]
FewCoords(S) == {None, Dict(TestCoords(S)), Dict(MirrorCoords(S))}

\* a caller's list of edge tuples for a closed node list, one tuple
\* (u, v) per node u and the node v after it, as generate_polygon builds
\* for the nodes 0 .. num_sides - 1
edge_list(nl) == [i \in 1 .. Len(nl) |-> tuple(<<nl[i], nl[(i % Len(nl)) + 1]>>)]

----------------------------------------------------------------------------
(* Shape.to_node_list, one action per step: lines 132-133, one pass of the *)
(* while loop (lines 134-146), and the lines after the loop (148-156).     *)

ToNodeListStart(shape, at) ==
    /\ pc = at
    /\ IF nodes(shape) = {}
       THEN /\ pc' = "raised_min_nodes"
            /\ UNCHANGED <<node_list, seen_nodes>>
       ELSE /\ node_list' = <<Min(nodes(shape))>>
            /\ seen_nodes' = Range(node_list')
            /\ pc' = "loop"
    /\ UNCHANGED <<self, other, arg_list, other_list, is_ring, merged, merged_back,
                   iterations, current_rings, perimeter_rings, area,
                   prev_area, last_op>>

ToNodeListLoop(shape) ==
    /\ pc = "loop"
    /\ Len(node_list) < len(shape)
    /\ LET last_node == node_list[Len(node_list)]
           connected == connected_nodes(shape, last_node, seen_nodes)
       IN  IF connected = {}
           THEN /\ pc' = "raised_min_connected"
                /\ UNCHANGED <<node_list, seen_nodes>>
           ELSE /\ node_list' = Append(node_list, Min(connected))
                /\ seen_nodes' = Range(node_list')
                /\ pc' = "loop"
    /\ iterations' = iterations + 1
    /\ UNCHANGED <<self, other, arg_list, other_list, is_ring, merged, merged_back,
                   current_rings, perimeter_rings, area, prev_area, last_op>>

ToNodeListReturn(shape) ==
    /\ pc = "loop"
    /\ ~(Len(node_list) < len(shape))
    /\ node_list' = winding(shape, node_list)
    /\ IF shape.coords_dict.is_none
       THEN UNCHANGED <<area, last_op>>
       ELSE /\ area' = calculate_polygon_area(node_list, shape.coords_dict.dict)
            /\ last_op' = IF area'.num < 0 THEN "reversed" ELSE "kept"
    /\ pc' = "returned"
    /\ UNCHANGED <<self, other, arg_list, other_list, is_ring, merged, merged_back,
                   seen_nodes, iterations, current_rings, perimeter_rings,
                   prev_area>>

----------------------------------------------------------------------------
(* The specification of to_node_list: a Shape is built from a node list,   *)
(* from any set of two-node edges or from a list of edge tuples, and       *)
(* to_node_list is called on it.                                           *)

\* a node list of 0 .. NumNodes nodes, closed or open, in any rotation and
\* direction, without coordinates or with the test's
InitFromList ==
    \E l \in NodeLists(Nodes, 0, NumNodes), r \in BOOLEAN, cd \in FewCoords(Nodes) :
        /\ arg_list = l
        /\ is_ring = r
        /\ self = Shape(node_list_to_edges(l, r), cd)

\* a ring with any coordinates of the grid for its nodes
InitEmbedded ==
    \E l \in NodeLists(Nodes, 3, NumNodes) :
        /\ Canonical(l)
        /\ \E d \in [Range(l) -> Grid] :
              /\ arg_list = l
              /\ is_ring = TRUE
              /\ self = Shape(node_list_to_edges(l, TRUE), Dict(d))

\* any set of two-node edges
InitEdges ==
    \E E \in SUBSET EdgesOver(Nodes), cd \in FewCoords(Nodes) :
        /\ arg_list = <<>>
        /\ is_ring = FALSE
        /\ self = Shape(E, cd)

\* the edge tuples of a closed node list of 2 .. NumNodes nodes
InitTuples ==
    \E l \in NodeLists(Nodes, 2, NumNodes), cd \in FewCoords(Nodes) :
        /\ arg_list = <<>>
        /\ is_ring = FALSE
        /\ self = ShapeFromSequence(edge_list(l), cd)

InitNodeList ==
    /\ InitFromList \/ InitEmbedded \/ InitEdges \/ InitTuples
    /\ other = NoShape
    /\ other_list = <<>>
    /\ merged = NoOutcome
    /\ merged_back = NoOutcome
    /\ node_list = <<>>
    /\ seen_nodes = {}
    /\ iterations = 0
    /\ pc = "call"
    /\ current_rings = {}
    /\ perimeter_rings = {}
    /\ area = NoArea
    /\ prev_area = NoArea
    /\ last_op = "none"

\* self.to_node_list()
SelfStart == ToNodeListStart(self, "call")
SelfLoop == ToNodeListLoop(self)
SelfReturn == ToNodeListReturn(self)

NextNodeList == SelfStart \/ SelfLoop \/ SelfReturn

SpecNodeList == InitNodeList /\ [][NextNodeList]_vars

----------------------------------------------------------------------------
(* The specification of merge: two rings over the nodes of the two-squares *)
(* test are merged; the result is merged with the second ring once more,   *)
(* or to_node_list is called on it, before or after the two rings and the  *)
(* result are put in current_rings and perimeter_rings.                    *)

TestNodes == DOMAIN test_coords_dict

\* the rings of 3 .. MaxRingLen of the test's nodes
TestRings ==
    {node_list_to_edges(l, TRUE) :
        l \in {m \in NodeLists(TestNodes, 3, MaxRingLen) : Canonical(m)}}

\* the test's coordinates with node n moved by delta
Moved(n, delta) ==
    [test_coords_dict EXCEPT ![n] = <<@[1] + delta[1], @[2] + delta[2]>>]

\* the coordinate maps of the two operands: the same map, maps that differ
\* at one node in one component, and one or both absent
CoordsPairs ==
    {<<Dict(test_coords_dict), Dict(test_coords_dict)>>}
    \cup {<<Dict(test_coords_dict), Dict(Moved(n, delta))>> :
             n \in TestNodes, delta \in {<<1, 0>>, <<0, 1>>}}
    \cup {<<None, Dict(test_coords_dict)>>, <<Dict(test_coords_dict), None>>,
          <<None, None>>}

InitMerge ==
    /\ \E l \in NodeLists(TestNodes, 3, MaxRingLen), E \in TestRings, cds \in CoordsPairs :
          /\ Canonical(l)
          /\ arg_list = l
          /\ self = Shape(node_list_to_edges(l, TRUE), cds[1])
          /\ other = Shape(E, cds[2])
    /\ other_list = <<>>
    /\ is_ring = TRUE
    /\ merged = NoOutcome
    /\ merged_back = NoOutcome
    /\ node_list = <<>>
    /\ seen_nodes = {}
    /\ iterations = 0
    /\ pc = "init"
    /\ current_rings = {}
    /\ perimeter_rings = {}
    /\ area = NoArea
    /\ prev_area = NoArea
    /\ last_op = "none"

\* self.merge(other)
Merge ==
    /\ pc = "init"
    /\ merged' = merge(self, other)
    /\ pc' = IF merged'.raised = "" THEN "merged" ELSE "merge_raised"
    /\ UNCHANGED <<self, other, arg_list, other_list, is_ring, merged_back, node_list,
                   seen_nodes, iterations, current_rings, perimeter_rings,
                   area, prev_area, last_op>>

\* self.merge(other).merge(other)
MergeBack ==
    /\ pc = "merged"
    /\ merged_back' = merge(merged.value, other)
    /\ pc' = IF merged_back'.raised = "" THEN "merged_back" ELSE "merge_raised"
    /\ UNCHANGED <<self, other, arg_list, other_list, is_ring, merged, node_list,
                   seen_nodes, iterations, current_rings, perimeter_rings,
                   area, prev_area, last_op>>

\* RingFinder, as the specification describes it, for a graph of which
\* self and other are the interior rings: current_rings holds the two, and
\* perimeter_rings the shape their merge left
RingFinder ==
    /\ pc = "merged"
    /\ current_rings' = set_add(set_add(current_rings, self), other)
    /\ perimeter_rings' = set_add(perimeter_rings, merged.value)
    /\ pc' = "classified"
    /\ UNCHANGED <<self, other, arg_list, other_list, is_ring, merged,
                   merged_back, node_list, seen_nodes, iterations, area,
                   prev_area, last_op>>

\* self.merge(other).to_node_list(), on the result of merge or on the same
\* shape as the member of perimeter_rings
MergedStart == ToNodeListStart(merged.value, "merged")
PerimeterStart == ToNodeListStart(merged.value, "classified")
MergedLoop == ToNodeListLoop(merged.value)
MergedReturn == ToNodeListReturn(merged.value)

NextMerge ==
    \/ Merge
    \/ MergeBack
    \/ RingFinder
    \/ MergedStart
    \/ PerimeterStart
    \/ MergedLoop
    \/ MergedReturn

Spec == InitMerge /\ [][NextMerge]_vars

----------------------------------------------------------------------------
(* The specification of construction and of sets of Shapes: a Shape is     *)
(* built from the edges of a closed node list, whatever the list, a second *)
(* one from the edges of a ring, each from a list of edge tuples or from   *)
(* the frozensets of node_list_to_edges; the constructor stores what it is *)
(* given.  Both are added to the two sets.                                 *)

\* the Shapes the constructor builds for a closed node list and a
\* coordinate map: Shape(edges, cd) of the list's edge tuples as they are,
\* and Shape(node_list_to_edges(nl), cd)
ShapesOf(nl, cd) ==
    {ShapeFromSequence(edge_list(nl), cd), Shape(node_list_to_edges(nl, TRUE), cd)}

InitSet ==
    /\ arg_list \in NodeLists(Nodes, 1, NumNodes)
    /\ other_list \in {l \in NodeLists(Nodes, 3, NumNodes) : Canonical(l)}
    /\ is_ring = TRUE
    /\ self = NoShape
    /\ other = NoShape
    /\ merged = NoOutcome
    /\ merged_back = NoOutcome
    /\ node_list = <<>>
    /\ seen_nodes = {}
    /\ iterations = 0
    /\ pc = "args"
    /\ current_rings = {}
    /\ perimeter_rings = {}
    /\ area = NoArea
    /\ prev_area = NoArea
    /\ last_op = "none"

\* self and other are built, each from tuples or from frozensets, for the
\* closed node lists arg_list and other_list
Construct ==
    /\ pc = "args"
    /\ \E cd \in FewCoords(Nodes) : self' \in ShapesOf(arg_list, cd)
    /\ \E cd \in FewCoords(Nodes) : other' \in ShapesOf(other_list, cd)
    /\ pc' = "built"
    /\ UNCHANGED <<arg_list, other_list, is_ring, merged, merged_back, node_list,
                   seen_nodes, iterations, current_rings, perimeter_rings,
                   area, prev_area, last_op>>

\* current_rings.add(self); current_rings.add(other)
AddCurrent ==
    /\ pc = "built"
    /\ current_rings' = set_add(set_add(current_rings, self), other)
    /\ pc' = "current"
    /\ UNCHANGED <<self, other, arg_list, other_list, is_ring, merged, merged_back,
                   node_list, seen_nodes, iterations, perimeter_rings, area,
                   prev_area, last_op>>

\* perimeter_rings.add(other); perimeter_rings.add(self)
AddPerimeter ==
    /\ pc = "current"
    /\ perimeter_rings' = set_add(set_add(perimeter_rings, other), self)
    /\ pc' = "perimeter"
    /\ UNCHANGED <<self, other, arg_list, other_list, is_ring, merged, merged_back,
                   node_list, seen_nodes, iterations, current_rings, area,
                   prev_area, last_op>>

NextSet == Construct \/ AddCurrent \/ AddPerimeter

SpecSet == InitSet /\ [][NextSet]_vars

----------------------------------------------------------------------------
(* The specification of calculate_polygon_area: the area of a node list    *)
(* with any coordinates of the grid is calculated, the list is reversed or *)
(* rotated by one place, and the area is calculated again.                 *)

AreaNodes == 0 .. (MaxAreaLen - 1)

InitArea ==
    /\ \E l \in NodeLists(AreaNodes, 0, MaxAreaLen), d \in [AreaNodes -> Grid] :
          /\ arg_list = l
          /\ node_list = l
          /\ self = Shape(node_list_to_edges(l, TRUE), Dict(d))
          /\ area = calculate_polygon_area(l, d)
    /\ is_ring = TRUE
    /\ other = NoShape
    /\ other_list = <<>>
    /\ merged = NoOutcome
    /\ merged_back = NoOutcome
    /\ seen_nodes = {}
    /\ iterations = 0
    /\ pc = "area"
    /\ current_rings = {}
    /\ perimeter_rings = {}
    /\ prev_area = NoArea
    /\ last_op = "none"

\* calculate_polygon_area(list(reversed(node_list)), coords_dict)
AreaOfReversed ==
    /\ pc = "area"
    /\ node_list' = reversed(node_list)
    /\ prev_area' = area
    /\ area' = calculate_polygon_area(node_list', self.coords_dict.dict)
    /\ last_op' = "reversed"
    /\ UNCHANGED <<self, other, arg_list, other_list, is_ring, merged, merged_back,
                   seen_nodes, iterations, pc, current_rings, perimeter_rings>>

\* calculate_polygon_area(node_list[-1:] + node_list[:-1], coords_dict)
AreaOfRotated ==
    /\ pc = "area"
    /\ node_list' = rotate(node_list)
    /\ prev_area' = area
    /\ area' = calculate_polygon_area(node_list', self.coords_dict.dict)
    /\ last_op' = "rotated"
    /\ UNCHANGED <<self, other, arg_list, other_list, is_ring, merged, merged_back,
                   seen_nodes, iterations, pc, current_rings, perimeter_rings>>

NextArea == AreaOfReversed \/ AreaOfRotated

SpecArea == InitArea /\ [][NextArea]_vars

----------------------------------------------------------------------------
(* Notions the properties are stated in. *)

\* every edge of the shape joins two nodes
TwoNodeEdges(shape) == \A e \in shape.edges : Cardinality(e.items) = 2

degree(shape, n) == Cardinality({e \in shape.edges : n \in e.items})

RECURSIVE Reach(_, _)
\* the nodes joined to a node of S by a path of the shape's edges
Reach(shape, S) ==
    LET T == S \cup UNION {e.items : e \in {f \in shape.edges : f.items \cap S # {}}}
    IN  IF T = S THEN S ELSE Reach(shape, T)

\* a simple ring: one closed cycle, each node in exactly two of its edges
IsSimpleRing(shape) ==
    /\ shape.edges # {}
    /\ TwoNodeEdges(shape)
    /\ \A n \in nodes(shape) : degree(shape, n) = 2
    /\ Reach(shape, {Min(nodes(shape))}) = nodes(shape)

\* a is b read from some position on, round the cycle
IsRotation(a, b) ==
    /\ Len(a) = Len(b)
    /\ \E k \in 0 .. (Len(b) - 1) :
          \A i \in 1 .. Len(a) : a[i] = b[((i - 1 + k) % Len(b)) + 1]

\* self was built from the node list of a ring, and has coordinates or not
BuiltFromRing == is_ring /\ Len(arg_list) >= 3 /\ Distinct(arg_list)

ToNodeListRaised == pc \in {"raised_min_nodes", "raised_min_connected"}

----------------------------------------------------------------------------
(* Properties of to_node_list. *)

\* C5: on a simple ring with coordinates to_node_list returns, and the list
\* it returns starts at the least node and has a signed area that is not
\* negative, also when the list the loop built had a negative one and was
\* reversed and rotated.
C5_CanonicalWinding ==
    (IsSimpleRing(self) /\ ~self.coords_dict.is_none) =>
        /\ ~ToNodeListRaised
        /\ pc = "returned" =>
              /\ node_list[1] = Min(nodes(self))
              /\ signed_area(node_list, self.coords_dict.dict) >= 0
              /\ last_op = "reversed" =>
                    /\ area.num < 0
                    /\ signed_area(node_list, self.coords_dict.dict) = -area.num

\* C5 witness: a four-node ring whose first-built list had a negative area
\* has been reversed, rotated and returned.
C5_Witness ==
    /\ pc = "returned"
    /\ IsSimpleRing(self)
    /\ len(self) = 4
    /\ last_op = "reversed"
    /\ area.num < 0

\* C6: for the node list L of a ring, Shape(node_list_to_edges(L)) has a
\* to_node_list that returns, with the nodes of L each once, in the cyclic
\* order of L or of L reversed.
C6_RoundTrip ==
    BuiltFromRing =>
        /\ ~ToNodeListRaised
        /\ pc = "returned" =>
              /\ Range(node_list) = Range(arg_list)
              /\ Distinct(node_list)
              /\ \/ IsRotation(node_list, arg_list)
                 \/ IsRotation(node_list, reversed(arg_list))

\* C6 witness: a four-node list that does not start at its least node, and
\* that to_node_list gives back in the other direction.
C6_Witness ==
    /\ pc = "returned"
    /\ BuiltFromRing
    /\ Len(arg_list) = 4
    /\ arg_list[1] # Min(Range(arg_list))
    /\ ~IsRotation(node_list, arg_list)

\* what C10 says of every call but its failure on a shape with no edge
C10_Bounded ==
    /\ iterations <= len(self)
    /\ Distinct(node_list)
    /\ Range(node_list) \subseteq nodes(self)
    /\ pc = "loop" => Len(node_list) = iterations + 1
    /\ pc = "returned" => Len(node_list) = len(self)
    /\ pc = "raised_min_connected" =>
          connected_nodes(self, node_list[Len(node_list)], seen_nodes) = {}

\* C10 as amended: on every set of two-node edges to_node_list ends within
\* len(edges) passes of its loop and visits no node twice; on the empty set
\* it fails at once, there being no least node to start from; otherwise it
\* fails because the last node has no unvisited neighbour, or it returns
\* len(edges) pairwise distinct nodes of the shape.
C10_Terminates ==
    TwoNodeEdges(self) =>
        /\ C10_Bounded
        /\ pc = "raised_min_nodes" <=> (pc # "call" /\ self.edges = {})

\* C10 as stated: the only failure is that of the last node having no
\* unvisited neighbour.
C10_AsStated ==
    TwoNodeEdges(self) => (C10_Bounded /\ pc # "raised_min_nodes")

\* C10 witness: a shape that is no ring (a node in three edges) on which
\* to_node_list failed after adding nodes, the last one having no unvisited
\* neighbour.
C10_Witness ==
    /\ pc = "raised_min_connected"
    /\ TwoNodeEdges(self)
    /\ \E n \in nodes(self) : degree(self, n) = 3
    /\ iterations >= 2

----------------------------------------------------------------------------
(* Properties of merge. *)

\* both operands have a coordinate map
BothHaveCoords == ~self.coords_dict.is_none /\ ~other.coords_dict.is_none

\* the nodes that occur in both operands' edge sets
SharedNodes(a, b) == nodes(a) \cap nodes(b)

\* some shared node has different coordinates in the two operands' maps
CoordsDiffer(a, b) ==
    \E n \in SharedNodes(a, b) : a.coords_dict.dict[n] # b.coords_dict.dict[n]

MergeCalled == merged.raised # "not called"

\* the edges of r are those in exactly one of a and b
IsSymmetricDifference(r, a, b) ==
    /\ \A e \in a.edges \cup b.edges :
          (e \in r.edges) <=> ~(e \in a.edges /\ e \in b.edges)
    /\ r.edges \subseteq a.edges \cup b.edges

\* C1: when the shared nodes of A and B have the same coordinates in both,
\* A.merge(B) returns a shape whose edges are those in exactly one of A
\* and B: none in both, and no other.  The same holds of the merge of that
\* result, which need be no ring, with B.
C1_SymmetricDifference ==
    /\ (MergeCalled /\ BothHaveCoords /\ ~CoordsDiffer(self, other)) =>
          /\ merged.raised = ""
          /\ IsSymmetricDifference(merged.value, self, other)
    /\ merged.raised = "" => IsSymmetricDifference(merged.value, self, other)
    /\ pc = "merged_back" =>
          IsSymmetricDifference(merged_back.value, merged.value, other)

\* C1 witness: two rings with two edges in common and edges of their own
\* have been merged.
C1_Witness ==
    /\ pc = "merged"
    /\ Cardinality(self.edges \cap other.edges) = 2
    /\ Cardinality(merged.value.edges) = 4
    /\ self.edges \ other.edges # {}
    /\ other.edges \ self.edges # {}

\* C2: A.merge(B) raises ValueError, and returns no shape, exactly when a
\* node in both A's and B's edges has different coordinates in A's map and
\* in B's; when every shared node has the same coordinates in both, it
\* returns.
C2_ValueError ==
    (MergeCalled /\ BothHaveCoords) =>
        /\ (merged.raised = "ValueError") <=> CoordsDiffer(self, other)
        /\ (merged.raised = "") <=> ~CoordsDiffer(self, other)
        /\ CoordsDiffer(self, other) => pc = "merge_raised"

\* C2 witness: the merge of two rings failed over a shared node of which
\* the two maps differ in the second coordinate only.
C2_Witness ==
    /\ pc = "merge_raised"
    /\ BothHaveCoords
    /\ merged.raised = "ValueError"
    /\ \E n \in SharedNodes(self, other) :
          /\ self.coords_dict.dict[n][1] = other.coords_dict.dict[n][1]
          /\ self.coords_dict.dict[n][2] # other.coords_dict.dict[n][2]

\* C3: for A and B with the same coordinate map, A.merge(B) returns, its
\* merge with B returns too, and that result is equal to A.
C3_MergeInvolution ==
    (BothHaveCoords /\ self.coords_dict = other.coords_dict) =>
        /\ MergeCalled => pc # "merge_raised"
        /\ pc = "merged_back" =>
              /\ merged_back.raised = ""
              /\ eq(merged_back.value, self)
              /\ eq(self, merged_back.value)

\* C3 witness: two different rings that share an edge, merged and merged
\* back.
C3_Witness ==
    /\ pc = "merged_back"
    /\ self.coords_dict = other.coords_dict
    /\ self.edges \cap other.edges # {}
    /\ ~eq(self, other)
    /\ ~eq(merged.value, self)

\* the two rings share exactly one edge
ShareOneEdge == Cardinality(self.edges \cap other.edges) = 1

\* the two rings meet nowhere but at the two ends of an edge they share
MeetAtOneEdgeOnly ==
    /\ ShareOneEdge
    /\ SharedNodes(self, other) = UNION {e.items : e \in self.edges \cap other.edges}

\* RingFinder has filled the two sets
Classified == current_rings # {}

\* what C7 says of the merge of two rings
C7_OneRing ==
    /\ MergeCalled =>
          /\ merged.raised = ""
          /\ self.edges \cap other.edges \cap merged.value.edges = {}
          /\ len(merged.value) = len(self) + len(other) - 2
          /\ IsSimpleRing(merged.value)
    /\ Classified =>
          /\ current_rings = {self, other}
          /\ Cardinality(current_rings) = 2
          /\ perimeter_rings = {merged.value}
          /\ \A ring \in perimeter_rings :
                len(ring) = len(self) + len(other) - 2
    /\ ~ToNodeListRaised
    /\ pc = "returned" =>
          /\ Len(node_list) = len(merged.value)
          /\ Distinct(node_list)
          /\ Range(node_list) = nodes(merged.value)

\* the two operands have coordinate maps, which cover the nodes of both,
\* and every node in both has the same coordinates in the two maps
AgreeingCoords == BothHaveCoords /\ ~CoordsDiffer(self, other)

\* the two unit squares of the test, side by side
TwoSquares ==
    /\ self.edges = node_list_to_edges(<<0, 1, 2, 3>>, TRUE)
    /\ other.edges = node_list_to_edges(<<2, 5, 4, 3>>, TRUE)
    /\ AgreeingCoords

\* C7 as amended: two rings with coordinate maps that cover the nodes of
\* both and agree on the nodes in both, which share exactly one edge and
\* no node but the two ends of that edge, merge into one ring without the shared edge and of the two
\* sizes' sum less 2; current_rings holds the two rings and
\* perimeter_rings that one ring, of which to_node_list visits every node
\* once.  The two squares give two current rings of size 4 each and one
\* perimeter ring of size 6, of which to_node_list returns the 6 nodes.
C7_SharedEdgeMerge ==
    /\ (IsSimpleRing(self) /\ IsSimpleRing(other) /\ AgreeingCoords
            /\ MeetAtOneEdgeOnly)
          => C7_OneRing
    /\ TwoSquares =>
          /\ MeetAtOneEdgeOnly
          /\ MergeCalled => len(merged.value) = 6
          /\ Classified =>
                /\ Cardinality(current_rings) = 2
                /\ \A ring \in current_rings : len(ring) = 4
                /\ Cardinality(perimeter_rings) = 1
                /\ \A ring \in perimeter_rings : len(ring) = 6
          /\ pc = "returned" =>
                (Len(node_list) = 6 /\ Cardinality(Range(node_list)) = 6)

\* C7 as stated: of any two rings that share exactly one edge.
C7_AsStated ==
    (IsSimpleRing(self) /\ IsSimpleRing(other) /\ ShareOneEdge) => C7_OneRing

\* C7 witness: the two squares are merged, current_rings holds the two and
\* perimeter_rings the result, and to_node_list has returned the six
\* nodes of the result.
C7_Witness ==
    /\ TwoSquares
    /\ Classified
    /\ pc = "returned"
    /\ len(merged.value) = 6
    /\ Len(node_list) = 6

----------------------------------------------------------------------------
(* Properties of construction, equality and sets of Shapes. *)

\* every edge of the shape is a frozenset, as node_list_to_edges builds it
UnorderedEdges(shape) == \A e \in shape.edges : e.type = "frozenset"

\* self and other were given the same edges: arg_list walks the ring of
\* other_list, from any of its nodes, in either direction
SameEdgesGiven ==
    \/ IsRotation(arg_list, other_list)
    \/ IsRotation(arg_list, reversed(other_list))

\* no set of Shapes holds both self and other
NeverBoth(S) == ~(self \in S /\ other \in S /\ self # other)

\* C4 as stated: two Shapes built from the same edges, listed from any
\* node of the ring (any order and rotation of the edges), in either
\* direction and with whatever coordinate maps, are equal, hash equally
\* and have the same length; two built from different edges are unequal;
\* so neither set of Shapes ever holds two members with the same edges.
C4_EdgeSetIdentity ==
    /\ (pc # "args" /\ SameEdgesGiven) =>
          /\ eq(self, other) /\ eq(other, self)
          /\ hash(self) = hash(other)
          /\ len(self) = len(other)
          /\ NeverBoth(current_rings)
          /\ NeverBoth(perimeter_rings)
    /\ (pc # "args" /\ ~SameEdgesGiven) => (~eq(self, other) /\ ~eq(other, self))

\* the same statement of Shapes whose edges are all frozensets: it holds
\* of them, and fails of edge tuples alone
EdgeSetIdentityUnordered ==
    (UnorderedEdges(self) /\ UnorderedEdges(other)) => C4_EdgeSetIdentity

\* C8 as stated: no Shape is built that holds an edge from a node to
\* itself.
C8_NoSelfLoopShape ==
    pc # "args" => TwoNodeEdges(self)

----------------------------------------------------------------------------
(* Properties of calculate_polygon_area. *)

\* C9: the signed area of the reversed list is the negation of the area of
\* the list, exactly, and the area of the list rotated is the area of the
\* list.
C9_AreaAntisymmetric ==
    /\ last_op = "reversed" =>
          (area.num = -prev_area.num /\ area.den = prev_area.den)
    /\ last_op = "rotated" => area = prev_area

\* C9 witness: a three-node list of area 1/2 was reversed, its area now
\* -1/2.
C9_Witness ==
    /\ last_op = "reversed"
    /\ Len(node_list) = 3
    /\ prev_area.num = 1
    /\ area.num = -1
    /\ area.den = 2

====
